---- MODULE Spec2Model ----
(***************************************************************************)
(* Model of the Cursive controller (src/src/lib.rs): the list of screens,  *)
(* the active screen, the running flag, the global callback table and the  *)
(* event loop of run().  The views and the StackView (module view) are     *)
(* modelled from the written specification, sections 4.1 and 4.2.          *)
(***************************************************************************)
EXTENDS Integers, Sequences, FiniteSets, TLC

----------------------------------------------------------------------------
(* Bounds of the model *)

\* cap on screens.len()
MaxScreens == 3
\* cap on the number of layers of one StackView
MaxLayers == 2
\* cap on the number of API calls the application makes outside callbacks
MaxCalls == 3
\* cap on the number of iterations of the loop of run()
MaxIter == 2

----------------------------------------------------------------------------
(* Inputs: key codes, callbacks and views the application may use *)

\* 'q' as i32, the key of the crate's example
KeyQ == 113

\* key codes (i32) the terminal may deliver
Keys == {1, KeyQ}

\* Option::None for a callback
NoCb == "none"

\* The closures Fn(&mut Cursive) the application registers or attaches to
\* views; each is a straight sequence of calls on the controller.
Callbacks ==
    {"cbQuit", "cbSet0", "cbSet1", "cbAddActive", "cbLayer", "cbReg", "cbQuitBad",
     "cbSwap"}

CbBody(c) ==
    CASE c = "cbQuit"      -> << <<"quit">> >>
      [] c = "cbSet0"      -> << <<"set_screen", 0>> >>
      [] c = "cbSet1"      -> << <<"set_screen", 1>> >>
      [] c = "cbAddActive" -> << <<"add_active_screen">> >>
      [] c = "cbLayer"     -> << <<"add_layer", "eat">> >>
      [] c = "cbReg"       -> << <<"add_global_callback", 1, "cbQuit">> >>
      [] c = "cbQuitBad"   -> << <<"quit">>, <<"set_screen", MaxScreens>> >>
      [] c = "cbSwap"      -> << <<"add_global_callback", 1, "cbLayer">>,
                                 <<"add_global_callback", KeyQ, "cbQuit">> >>

\* EventResult
Ignored == [tag |-> "Ignored", cb |-> NoCb]
Consumed(cb) == [tag |-> "Consumed", cb |-> cb]

\* Concrete views: a text view (ignores every key), a view that consumes
\* every key without follow-up, and buttons that consume key 1 with a follow-up.
Views == {"text", "eat", "btnQuit", "btnSet1"}

View_on_key_event(v, key) ==
    CASE v = "text"    -> Ignored
      [] v = "eat"     -> Consumed(NoCb)
      [] v = "btnQuit" -> IF key = 1 THEN Consumed("cbQuit") ELSE Ignored
      [] v = "btnSet1" -> IF key = 1 THEN Consumed("cbSet1") ELSE Ignored

\* the identifier a view answers to in find (the text view and the consuming
\* view share one), and its concrete type
ViewId(v) ==
    CASE v = "text" -> "t" [] v = "eat" -> "t" [] OTHER -> "b"

ViewType(v) ==
    CASE v = "text" -> "TextView" [] v = "eat" -> "EditView" [] OTHER -> "Button"

\* selectors the application may search for ("x" names no view) and the
\* types it may ask for
Selectors == {"t", "b", "x"}

ViewTypes == {"TextView", "Button"}

----------------------------------------------------------------------------
(* StackView: layers bottom to top *)

StackView_new == << >>

StackView_add_layer(layers, v) == Append(layers, v)

\* Variant that offers the key to lower layers when the top one ignores it.
RECURSIVE StackView_on_key_event_fallthrough(_, _)
StackView_on_key_event_fallthrough(layers, key) ==
    IF layers = << >>
    THEN [res |-> Ignored, delivered |-> {}]
    ELSE LET top == Len(layers)
             r   == View_on_key_event(layers[top], key)
         IN  IF r.tag = "Ignored"
             THEN LET below == StackView_on_key_event_fallthrough(SubSeq(layers, 1, top - 1), key)
                  IN  [res |-> below.res, delivered |-> below.delivered \cup {top}]
             ELSE [res |-> r, delivered |-> {top}]

\* The key goes to the top layer only; delivered is the set of layer
\* positions whose handler ran.
StackView_on_key_event(layers, key) ==
    IF layers = << >>
    THEN [res |-> Ignored, delivered |-> {}]
    ELSE [res |-> View_on_key_event(layers[Len(layers)], key),
          delivered |-> {Len(layers)}]

\* find: the first layer, from the top, that matches the selector; 0 if none
RECURSIVE StackView_find(_, _)
StackView_find(layers, sel) ==
    IF layers = << >> THEN 0
    ELSE IF ViewId(layers[Len(layers)]) = sel THEN Len(layers)
    ELSE StackView_find(SubSeq(layers, 1, Len(layers) - 1), sel)

----------------------------------------------------------------------------
(* The terminal driver (ncurses), as a monitor of the calls made to it *)

ncurses_pristine ==
    [state |-> "uninit", initscr |-> 0, endwin |-> 0, misuse |-> FALSE,
     refreshes |-> 0, timeout |-> -1]

\* One call f to the driver; misuse records a call made while the driver is
\* not between initscr and endwin.
ncurses_call(d, f) ==
    CASE f = "initscr" -> [d EXCEPT !.state = "active", !.initscr = @ + 1,
                                    !.misuse = @ \/ d.state = "active"]
      [] f = "endwin"  -> [d EXCEPT !.state = "ended", !.endwin = @ + 1,
                                    !.misuse = @ \/ d.state # "active"]
      [] f = "refresh" -> [d EXCEPT !.refreshes = @ + 1,
                                    !.misuse = @ \/ d.state # "active"]
      [] OTHER         -> [d EXCEPT !.misuse = @ \/ d.state # "active"]

\* ncurses::timeout(ms): a negative ms makes the key read block
ncurses_timeout(d, ms) ==
    [d EXCEPT !.timeout = ms, !.misuse = @ \/ d.state # "active"]

RECURSIVE ncurses_calls(_, _)
ncurses_calls(d, fs) ==
    IF fs = << >> THEN d ELSE ncurses_calls(ncurses_call(d, Head(fs)), Tail(fs))

----------------------------------------------------------------------------
(* set_fps: u32 and i32 arithmetic *)

\* i32::MAX
I32Max == 2147483647

\* the documented upper end of fps
FpsDocMax == 1000

\* A u32 is written [hi, lo]: its top bit and its low 31 bits, so that every
\* number stays in range.
U32(hi, lo) == [hi |-> hi, lo |-> lo]

\* fps values tried: 0 .. FpsDocMax + 1, and the ends of the ranges in which
\* the cast to i32 changes the value
FpsInputs ==
    {U32(0, n) : n \in 0..(FpsDocMax + 1)}
        \cup {U32(0, I32Max), U32(1, 0), U32(1, I32Max - 1000),
              U32(1, I32Max - 999), U32(1, I32Max)}

\* fps as i32 (two's complement)
as_i32(x) == IF x.hi = 1 THEN (x.lo - I32Max) - 1 ELSE x.lo

\* a / b on i32, rounding toward zero, for a >= 0 and b # 0 (the quotient
\* is 0 when b < -a, which also keeps -b in range)
div_i32(a, b) ==
    IF b > 0 THEN a \div b
    ELSE IF b < -a THEN 0
    ELSE -(a \div (-b))

set_fps_swapped(d, fps) ==
    IF fps = U32(0, 0)
    THEN ncurses_timeout(d, -1)
    ELSE ncurses_timeout(d, IF as_i32(fps) > 0 THEN as_i32(fps) \div 1000 ELSE 0)

\* Cursive::set_fps
set_fps(d, fps) ==
    IF fps = U32(0, 0)
    THEN ncurses_timeout(d, -1)
    ELSE ncurses_timeout(d, div_i32(1000, as_i32(fps)))

----------------------------------------------------------------------------
(* The controller: struct Cursive, as a record m *)

\* Option::None for a view, and a handle to layer i of screen id
NoView == [screen |-> 0, layer |-> 0]
ViewAt(id, i) == [screen |-> id, layer |-> i]

\* history kept next to the controller: ids returned by add_screen /
\* add_active_screen, the last set_screen call, whether quit was called,
\* for the current dispatch the callbacks invoked and whether the global
\* table was looked up, the last find and add_layer, per key the last
\* registration (its callback, whether it replaced another one, who made
\* it), and what the previous iteration of the loop did
NoHistory ==
    [returned |-> << >>,
     ss |-> [called |-> FALSE, id |-> 0, len |-> 0, pre_active |-> 0,
             active |-> 0, panicked |-> FALSE, rest_same |-> TRUE],
     quitCalled |-> FALSE, quitInCb |-> FALSE,
     invoked |-> << >>, consulted |-> FALSE,
     fd |-> [called |-> FALSE, sel |-> "x", type |-> "TextView", res |-> NoView,
             active |-> 0, hit |-> 0, hitType |-> "", elsewhere |-> FALSE,
             panicked |-> FALSE, same |-> TRUE],
     fps |-> [called |-> FALSE, arg |-> U32(0, 0)],
     al |-> [called |-> FALSE, inCb |-> FALSE, screen |-> 0, below |-> 0,
             grows |-> TRUE, top |-> TRUE, kept |-> TRUE, others_same |-> TRUE,
             rest_same |-> TRUE, panicked |-> FALSE],
     reg |-> [k \in Keys |-> [cb |-> NoCb, over |-> FALSE, by |-> "none"]],
     prev |-> [valid |-> FALSE, key |-> 0, screen |-> 0, after |-> 0,
               invoked |-> << >>, regby |-> "none"]]

\* driver calls of Cursive::new, in order
new_driver_calls ==
    <<"initscr", "keypad", "noecho", "cbreak", "start_color", "curs_set",
      "load_legacy", "wbkgd">>

new ==
    [screens |-> <<StackView_new>>,
     active_screen |-> 0,
     running |-> TRUE,
     global_callbacks |-> [k \in Keys |-> NoCb],
     panicked |-> FALSE,
     ret |-> 0,
     h |-> NoHistory]

panic(m) == [m EXCEPT !.panicked = TRUE]

\* screen_mut: screens.get_mut(active_screen).unwrap()
screen_mut_ok(m) == m.active_screen < Len(m.screens)

screen_mut_first(m) == 0

\* the id of the screen screen_mut returns
screen_mut(m) == m.active_screen

\* find_any: the active screen's find
find_any(m, sel) ==
    LET i == StackView_find(m.screens[screen_mut(m) + 1], sel)
    IN  IF i = 0 THEN NoView ELSE ViewAt(screen_mut(m), i)

find_no_downcast(m, sel, V) ==
    IF ~screen_mut_ok(m) THEN panic(m) ELSE [m EXCEPT !.ret = find_any(m, sel)]

\* find::<V>: find_any, then downcast_mut::<V>; the handle is in ret
find(m, sel, V) ==
    IF ~screen_mut_ok(m)
    THEN panic(m)
    ELSE LET b == find_any(m, sel)
         IN  IF b = NoView
             THEN [m EXCEPT !.ret = NoView]
             ELSE IF ViewType(m.screens[b.screen + 1][b.layer]) = V
                  THEN [m EXCEPT !.ret = b]
                  ELSE [m EXCEPT !.ret = NoView]

add_screen_after_push(m) ==
    [m EXCEPT !.screens = Append(@, StackView_new), !.ret = Len(m.screens) + 1]

add_screen(m) ==
    LET res == Len(m.screens)
    IN  [m EXCEPT !.screens = Append(@, StackView_new), !.ret = res]

set_screen_unchecked(m, screen_id) == [m EXCEPT !.active_screen = screen_id]

set_screen_off_by_one(m, screen_id) ==
    IF screen_id > Len(m.screens)
    THEN panic(m)
    ELSE [m EXCEPT !.active_screen = screen_id]

set_screen(m, screen_id) ==
    IF screen_id >= Len(m.screens)
    THEN panic(m)
    ELSE [m EXCEPT !.active_screen = screen_id]

add_active_screen(m) ==
    LET a   == add_screen(m)
        res == a.ret
        b   == set_screen(a, res)
    IN  IF b.panicked THEN b ELSE [b EXCEPT !.ret = res]

add_global_callback_keep_first(m, key, cb) ==
    IF m.global_callbacks[key] = NoCb
    THEN [m EXCEPT !.global_callbacks[key] = cb]
    ELSE m

add_global_callback(m, key, cb) ==
    [m EXCEPT !.global_callbacks[key] = cb]

add_layer_first_screen(m, view) ==
    [m EXCEPT !.screens[1] = StackView_add_layer(@, view)]

add_layer(m, view) ==
    IF ~screen_mut_ok(m)
    THEN panic(m)
    ELSE [m EXCEPT !.screens[screen_mut(m) + 1] = StackView_add_layer(@, view)]

quit_noop(m) == m

quit(m) == [m EXCEPT !.running = FALSE]

----------------------------------------------------------------------------
(* Calls on the controller, from main or from inside a callback *)

\* One call o on the controller m.  inCb tells whether a callback makes it.
\* The history records what was called and what came back.
Call(o, m, inCb) ==
    CASE o[1] = "quit" ->
            LET m1 == quit(m)
            IN  [m1 EXCEPT !.h.quitCalled = TRUE, !.h.quitInCb = @ \/ inCb]
      [] o[1] = "add_screen" ->
            LET m1 == add_screen(m)
            IN  [m1 EXCEPT !.h.returned = Append(@, [id |-> m1.ret, by |-> o[1]])]
      [] o[1] = "add_active_screen" ->
            LET m1 == add_active_screen(m)
            IN  IF m1.panicked THEN m1
                ELSE [m1 EXCEPT !.h.returned = Append(@, [id |-> m1.ret, by |-> o[1]])]
      [] o[1] = "set_screen" ->
            LET m1 == set_screen(m, o[2])
            IN  [m1 EXCEPT !.h.ss =
                    [called |-> TRUE, id |-> o[2], len |-> Len(m.screens),
                     pre_active |-> m.active_screen, active |-> m1.active_screen,
                     panicked |-> m1.panicked,
                     rest_same |-> /\ m1.screens = m.screens
                                   /\ m1.running = m.running
                                   /\ m1.global_callbacks = m.global_callbacks]]
      [] o[1] = "find" ->
            LET m1 == find(m, o[2], o[3])
                L  == m.screens[m.active_screen + 1]
                i  == StackView_find(L, o[2])
            IN  [m1 EXCEPT !.h.fd =
                    [called |-> TRUE, sel |-> o[2], type |-> o[3],
                     res |-> IF m1.panicked THEN NoView ELSE m1.ret,
                     active |-> m.active_screen,
                     hit |-> i,
                     hitType |-> IF i = 0 THEN "" ELSE ViewType(L[i]),
                     elsewhere |-> \E j \in 1..Len(m.screens) :
                                      /\ j # m.active_screen + 1
                                      /\ \E k \in 1..Len(m.screens[j]) :
                                            /\ ViewId(m.screens[j][k]) = o[2]
                                            /\ ViewType(m.screens[j][k]) = o[3],
                     panicked |-> m1.panicked,
                     same |-> /\ m1.screens = m.screens
                              /\ m1.active_screen = m.active_screen
                              /\ m1.running = m.running
                              /\ m1.global_callbacks = m.global_callbacks]]
      [] o[1] = "add_layer" ->
            LET m1  == add_layer(m, o[2])
                a   == m.active_screen + 1
                old == m.screens[a]
                now == m1.screens[a]
            IN  [m1 EXCEPT !.h.al =
                    [called |-> TRUE, inCb |-> inCb, screen |-> m.active_screen,
                     below |-> Len(old),
                     grows |-> Len(now) = Len(old) + 1,
                     top |-> now # << >> /\ now[Len(now)] = o[2],
                     kept |-> Len(now) >= Len(old) /\ SubSeq(now, 1, Len(old)) = old,
                     others_same |-> /\ Len(m1.screens) = Len(m.screens)
                                     /\ \A j \in 1..Len(m.screens) :
                                           j # a => m1.screens[j] = m.screens[j],
                     rest_same |-> /\ m1.active_screen = m.active_screen
                                   /\ m1.running = m.running
                                   /\ m1.global_callbacks = m.global_callbacks,
                     panicked |-> m1.panicked]]
      [] o[1] = "add_global_callback" ->
            LET m1 == add_global_callback(m, o[2], o[3])
            IN  [m1 EXCEPT !.h.reg[o[2]] =
                    [cb |-> o[3],
                     over |-> m.h.reg[o[2]].cb \notin {NoCb, o[3]},
                     by |-> IF inCb THEN "cb" ELSE "main"]]

\* The body of a closure: its calls in order; a panic unwinds past the rest.
RECURSIVE Exec(_, _)
Exec(ops, m) ==
    IF ops = << >> \/ m.panicked
    THEN m
    ELSE Exec(Tail(ops), Call(Head(ops), m, TRUE))

\* cb(self)
Invoke(cb, m) == Exec(CbBody(cb), [m EXCEPT !.h.invoked = Append(@, cb)])

on_key_event_twice(m, ch) ==
    LET cb == m.global_callbacks[ch]
        m0 == [m EXCEPT !.h.consulted = TRUE]
    IN  IF cb = NoCb THEN m0 ELSE Invoke(cb, Invoke(cb, m0))

\* Variant that runs the closure out of the table entry instead of a clone:
\* the closure is gone as soon as the entry of ch is replaced.
RECURSIVE ExecInPlace(_, _, _, _)
ExecInPlace(ops, m, ch, cb) ==
    IF ops = << >> \/ m.panicked \/ m.global_callbacks[ch] # cb
    THEN m
    ELSE ExecInPlace(Tail(ops), Call(Head(ops), m, TRUE), ch, cb)

on_key_event_in_place(m, ch) ==
    LET cb == m.global_callbacks[ch]
        m0 == [m EXCEPT !.h.consulted = TRUE]
    IN  IF cb = NoCb THEN m0
        ELSE ExecInPlace(CbBody(cb), [m0 EXCEPT !.h.invoked = Append(@, cb)], ch, cb)

on_key_event_unwrap(m, ch) ==
    LET cb == m.global_callbacks[ch]
        m0 == [m EXCEPT !.h.consulted = TRUE]
    IN  IF cb = NoCb THEN panic(m0) ELSE Invoke(cb, m0)

\* Cursive::on_key_event: the key was ignored by the current view
on_key_event(m, ch) ==
    LET cb == m.global_callbacks[ch]
        m0 == [m EXCEPT !.h.consulted = TRUE]
    IN  IF cb = NoCb THEN m0 ELSE Invoke(cb, m0)

event_match_always_global(m, r, ch) ==
    CASE r.tag = "Ignored" -> on_key_event(m, ch)
      [] r.tag = "Consumed" /\ r.cb = NoCb -> on_key_event(m, ch)
      [] OTHER -> on_key_event(Invoke(r.cb, m), ch)

event_match_ignored_dropped(m, r, ch) ==
    CASE r.tag = "Ignored" -> m
      [] r.tag = "Consumed" /\ r.cb = NoCb -> m
      [] OTHER -> Invoke(r.cb, m)

event_match_then_global(m, r, ch) ==
    CASE r.tag = "Ignored" -> on_key_event(m, ch)
      [] r.tag = "Consumed" /\ r.cb = NoCb -> m
      [] OTHER -> LET m1 == Invoke(r.cb, m)
                  IN  IF m1.panicked THEN m1 ELSE on_key_event(m1, ch)

\* the match on the EventResult r of the active screen, in run()
event_match(m, r, ch) ==
    CASE r.tag = "Ignored" -> on_key_event(m, ch)
      [] r.tag = "Consumed" /\ r.cb = NoCb -> m
      [] OTHER -> Invoke(r.cb, m)

\* self.screen_mut().on_key_event(ch), then the match
dispatch(m, ch) ==
    IF ~screen_mut_ok(m)
    THEN panic(m)
    ELSE event_match(m, StackView_on_key_event(m.screens[screen_mut(m) + 1], ch).res, ch)

\* while self.running
loop_cond_negated(m) == ~m.running

loop_cond(m) == m.running

\* the statements of the body of the loop of run(), in program order
RunBody_draw_first == <<"clear", "draw", "layout", "getch", "dispatch">>

RunBody == <<"clear", "layout", "draw", "getch", "dispatch">>

drop_noop(d) == d

\* impl Drop for Cursive
drop(d) == ncurses_call(d, "endwin")

----------------------------------------------------------------------------
(* State *)

VARIABLES
    screens,            \* Vec<StackView>
    active_screen,      \* ScreenId, 0-based
    running,            \* bool
    global_callbacks,   \* HashMap<i32, Rc<Callback>>
    pc,                 \* "main", "while", "body", "panicked", "dropped"
    ip,                 \* position in RunBody while pc = "body"
    ch,                 \* the key read by getch in this iteration
    ncurses,            \* the terminal driver
    calls,              \* API calls made by main so far
    iters,              \* iterations of the loop started so far
    frame,              \* steps done in the current iteration, with their screen
    ev,                 \* what the active screen did with the key of this iteration
    h,                  \* history of the calls on the controller
    exit                \* how the last run() ended: "none", "returned", "panic"

vars == <<screens, active_screen, running, global_callbacks, pc, ip, ch,
          ncurses, calls, iters, frame, ev, h, exit>>

NoEvent ==
    [valid |-> FALSE, key |-> 0, layers |-> << >>, result |-> Ignored,
     delivered |-> {}, registered |-> NoCb, screen |-> 0,
     lastreg |-> NoCb, over |-> FALSE, regby |-> "none",
     table_before |-> new.global_callbacks, table_after |-> new.global_callbacks,
     same |-> TRUE, panicked |-> FALSE]

\* the controller as a record
Self ==
    [screens |-> screens, active_screen |-> active_screen, running |-> running,
     global_callbacks |-> global_callbacks, panicked |-> FALSE, ret |-> 0, h |-> h]

Store(m) ==
    /\ screens' = m.screens
    /\ active_screen' = m.active_screen
    /\ running' = m.running
    /\ global_callbacks' = m.global_callbacks
    /\ h' = m.h

WithinBounds(m) ==
    /\ Len(m.screens) <= MaxScreens
    /\ \A i \in 1..Len(m.screens) : Len(m.screens[i]) <= MaxLayers

Init ==
    /\ screens = new.screens
    /\ active_screen = new.active_screen
    /\ running = new.running
    /\ global_callbacks = new.global_callbacks
    /\ h = new.h
    /\ ncurses = ncurses_calls(ncurses_pristine, new_driver_calls)
    /\ pc = "main"
    /\ ip = 0
    /\ ch = 0
    /\ calls = 0
    /\ iters = 0
    /\ frame = << >>
    /\ ev = NoEvent
    /\ exit = "none"

----------------------------------------------------------------------------
(* The application's calls, made from main outside the loop *)

MainCall(o) ==
    /\ pc = "main"
    /\ calls < MaxCalls
    /\ LET m == Call(o, Self, FALSE)
       IN  /\ WithinBounds(m)
           /\ Store(m)
           /\ pc' = IF m.panicked THEN "panicked" ELSE "main"
    /\ calls' = calls + 1
    /\ UNCHANGED <<ip, ch, ncurses, iters, frame, ev, exit>>

AddScreen == MainCall(<<"add_screen">>)

AddActiveScreen == MainCall(<<"add_active_screen">>)

SetScreen == \E id \in 0..MaxScreens : MainCall(<<"set_screen", id>>)

AddLayer == \E v \in Views : MainCall(<<"add_layer", v>>)

AddGlobalCallback ==
    \E k \in Keys, c \in Callbacks : MainCall(<<"add_global_callback", k, c>>)

Quit == MainCall(<<"quit">>)

\* main calls find; it changes nothing in the controller, so it is not
\* counted in calls
Find ==
    /\ pc = "main"
    /\ \E sel \in Selectors, V \in ViewTypes :
          LET m == Call(<<"find", sel, V>>, Self, FALSE)
          IN  /\ Store(m)
              /\ pc' = IF m.panicked THEN "panicked" ELSE "main"
    /\ UNCHANGED <<ip, ch, ncurses, calls, iters, frame, ev, exit>>

\* main calls set_fps(fps)
SetFps ==
    /\ pc = "main"
    /\ \E fps \in FpsInputs :
          /\ ncurses' = set_fps(ncurses, fps)
          /\ h' = [h EXCEPT !.fps = [called |-> TRUE, arg |-> fps]]
    /\ UNCHANGED <<screens, active_screen, running, global_callbacks, pc, ip,
                   ch, calls, iters, frame, ev, exit>>

----------------------------------------------------------------------------
(* run() *)

\* Variant of run() that sets running again before the loop.
Run_restart ==
    /\ pc = "main"
    /\ pc' = "while"
    /\ ip' = 0
    /\ exit' = "none"
    /\ running' = TRUE
    /\ UNCHANGED <<screens, active_screen, global_callbacks, ch,
                   ncurses, calls, iters, frame, ev, h>>

\* main calls run()
Run ==
    /\ pc = "main"
    /\ pc' = "while"
    /\ ip' = 0
    /\ exit' = "none"
    /\ UNCHANGED <<screens, active_screen, running, global_callbacks, ch,
                   ncurses, calls, iters, frame, ev, h>>

\* while self.running: enter the body, or return to main
While ==
    /\ pc = "while"
    /\ IF loop_cond(Self)
       THEN /\ iters < MaxIter
            /\ pc' = "body"
            /\ ip' = 1
            /\ iters' = iters + 1
            /\ frame' = << >>
            /\ ev' = NoEvent
            /\ h' = [h EXCEPT !.invoked = << >>, !.consulted = FALSE,
                               !.prev = IF ev.valid
                                        THEN [valid |-> TRUE, key |-> ev.key,
                                              screen |-> ev.screen,
                                              after |-> active_screen,
                                              invoked |-> h.invoked,
                                              regby |-> ev.regby]
                                        ELSE @]
            /\ exit' = exit
       ELSE /\ pc' = "main"
            /\ ip' = 0
            /\ exit' = "returned"
            /\ UNCHANGED <<iters, frame, ev, h>>
    /\ UNCHANGED <<screens, active_screen, running, global_callbacks, ch,
                   ncurses, calls>>

\* the control after statement ip of the body
Advance ==
    IF ip < Len(RunBody)
    THEN pc' = "body" /\ ip' = ip + 1
    ELSE pc' = "while" /\ ip' = 0

Step(name) == pc = "body" /\ RunBody[ip] = name

\* ncurses::clear()
Clear ==
    /\ Step("clear")
    /\ ncurses' = ncurses_call(ncurses, "clear")
    /\ frame' = Append(frame, [step |-> "clear", screen |-> active_screen])
    /\ Advance
    /\ UNCHANGED <<screens, active_screen, running, global_callbacks, ch,
                   calls, iters, ev, h, exit>>

\* self.layout(): screen_size(), then the active screen's layout
Layout ==
    /\ Step("layout")
    /\ ncurses' = ncurses_call(ncurses, "getmaxyx")
    /\ frame' = Append(frame, [step |-> "layout", screen |-> screen_mut(Self)])
    /\ IF screen_mut_ok(Self)
       THEN Advance /\ exit' = exit
       ELSE pc' = "panicked" /\ ip' = ip /\ exit' = "panic"
    /\ UNCHANGED <<screens, active_screen, running, global_callbacks, ch,
                   calls, iters, ev, h>>

\* self.draw(): screen_size(), the active screen's draw, ncurses::refresh()
Draw ==
    /\ Step("draw")
    /\ frame' = Append(frame, [step |-> "draw", screen |-> screen_mut(Self)])
    /\ IF screen_mut_ok(Self)
       THEN /\ ncurses' = ncurses_calls(ncurses, <<"getmaxyx", "refresh">>)
            /\ Advance
            /\ exit' = exit
       ELSE /\ ncurses' = ncurses_call(ncurses, "getmaxyx")
            /\ pc' = "panicked" /\ ip' = ip /\ exit' = "panic"
    /\ UNCHANGED <<screens, active_screen, running, global_callbacks, ch,
                   calls, iters, ev, h>>

\* let ch = ncurses::getch()
Getch ==
    /\ Step("getch")
    /\ \E k \in Keys : ch' = k
    /\ ncurses' = ncurses_call(ncurses, "getch")
    /\ frame' = Append(frame, [step |-> "getch", screen |-> active_screen])
    /\ Advance
    /\ UNCHANGED <<screens, active_screen, running, global_callbacks,
                   calls, iters, ev, h, exit>>

\* match self.screen_mut().on_key_event(ch) { ... }, callbacks included
Dispatch ==
    /\ Step("dispatch")
    /\ LET m == dispatch(Self, ch)
           r == StackView_on_key_event(screens[screen_mut(Self) + 1], ch)
       IN  /\ WithinBounds(m)
           /\ Store(m)
           /\ ev' = [valid |-> TRUE, key |-> ch,
                     layers |-> screens[screen_mut(Self) + 1],
                     result |-> r.res, delivered |-> r.delivered,
                     registered |-> global_callbacks[ch],
                     screen |-> screen_mut(Self),
                     lastreg |-> h.reg[ch].cb, over |-> h.reg[ch].over,
                     regby |-> h.reg[ch].by,
                     table_before |-> global_callbacks,
                     table_after |-> m.global_callbacks,
                     same |-> /\ m.screens = screens
                              /\ m.active_screen = active_screen
                              /\ m.running = running
                              /\ m.global_callbacks = global_callbacks,
                     panicked |-> m.panicked]
           /\ IF m.panicked
              THEN pc' = "panicked" /\ ip' = ip /\ exit' = "panic"
              ELSE Advance /\ exit' = exit
    /\ frame' = Append(frame, [step |-> "dispatch", screen |-> screen_mut(Self)])
    /\ UNCHANGED <<ch, ncurses, calls, iters>>

----------------------------------------------------------------------------
(* The end of the controller's life *)

\* main ends, or a panic unwinds main: the controller is dropped
Drop ==
    /\ pc \in {"main", "panicked"}
    /\ pc' = "dropped"
    /\ ncurses' = drop(ncurses)
    /\ UNCHANGED <<screens, active_screen, running, global_callbacks, ip, ch,
                   calls, iters, frame, ev, h, exit>>

Next ==
    \/ AddScreen
    \/ AddActiveScreen
    \/ SetScreen
    \/ AddLayer
    \/ AddGlobalCallback
    \/ Quit
    \/ Run
    \/ While
    \/ Clear
    \/ Layout
    \/ Draw
    \/ Getch
    \/ Dispatch
    \/ Drop

Spec == Init /\ [][Next]_vars

\* the thread goes on: the loop condition, once reached, is evaluated
FairSpec == Spec /\ WF_vars(While)

\* find, on the controllers that main can build with screens and layers
NextFind ==
    \/ AddScreen
    \/ AddActiveScreen
    \/ SetScreen
    \/ AddLayer
    \/ Find

SpecFind == Init /\ [][NextFind]_vars

\* set_fps alone, on a freshly constructed controller, over FpsInputs
SpecFps == Init /\ [][SetFps]_vars

----------------------------------------------------------------------------
(* Properties *)

\* C1: in every reachable state, failed set_screen calls and callbacks run
\* by the loop included, screens holds at least one screen and
\* active_screen is a valid index into it, so screen_mut() never fails.
C1_ActiveScreenValid ==
    /\ Len(screens) >= 1
    /\ active_screen \in 0..(Len(screens) - 1)
    /\ screen_mut_ok(Self)

\* a callback run by the loop called set_screen out of range, with a second
\* screen added and active
C1_Witness ==
    /\ exit = "panic"
    /\ h.ss.called /\ h.ss.panicked
    /\ Len(screens) >= 2
    /\ active_screen = 1

\* C2: when a key with a registered global callback is delivered and the
\* active screen returns Ignored, exactly that callback is invoked exactly
\* once in that iteration, acting on the controller.
C2_GlobalCallbackOnce ==
    (ev.valid /\ ev.result.tag = "Ignored" /\ ev.registered # NoCb)
        => /\ h.invoked = <<ev.registered>>
           /\ frame[Len(frame)].step = "dispatch"
           /\ (ev.registered = "cbQuit" => ~running /\ h.quitInCb)

C2_Witness ==
    /\ ev.valid
    /\ ev.layers # << >>
    /\ ev.result.tag = "Ignored"
    /\ ev.registered = "cbQuit"
    /\ ~running

\* C3: Consumed(Some(cb)) invokes cb exactly once in the same step and does
\* not look at the global table; Consumed(None) invokes nothing, also when
\* a global callback is registered for the key.
C3_ConsumedFollowUp ==
    (ev.valid /\ ev.result.tag = "Consumed")
        => /\ ~h.consulted
           /\ h.invoked = IF ev.result.cb = NoCb THEN << >> ELSE <<ev.result.cb>>
           /\ (ev.result.cb = "cbQuit" => ~running /\ h.quitInCb)

C3_Witness ==
    /\ ev.valid
    /\ ev.result = Consumed("cbQuit")
    /\ ev.registered \notin {NoCb, "cbQuit"}
    /\ ~running

\* C4: once a callback has called quit(), no further iteration starts and no
\* further clear, layout, draw or key read happens; the loop condition, when
\* reached, makes run() return.
C4_QuitStopsLoop ==
    [][h.quitInCb =>
          /\ iters' = iters
          /\ frame' = frame
          /\ pc' # "body"
          /\ (pc = "while" /\ pc' # pc => pc' = "main" /\ exit' = "returned")]_vars

C4_Witness ==
    /\ h.quitInCb
    /\ pc = "main"
    /\ exit = "returned"
    /\ iters < MaxIter

\* the fixed order of the steps of one iteration
FrameOrder == <<"clear", "layout", "draw", "getch", "dispatch">>

\* C5: the steps of an iteration happen in the order clear, layout, draw,
\* key read, dispatch, and the dispatch, callbacks included, is over before
\* the next frame starts.
C5_FrameOrder ==
    /\ Len(frame) <= Len(FrameOrder)
    /\ \A i \in 1..Len(frame) : frame[i].step = FrameOrder[i]
    /\ (pc = "body" => Len(frame) = ip - 1 /\ ip <= Len(FrameOrder))
    /\ (Len(frame) = Len(FrameOrder) => pc # "body" /\ ev.valid)
    /\ (h.invoked # << >> => Len(frame) = Len(FrameOrder))

\* the second frame is complete and its dispatch ran a callback
C5_Witness ==
    /\ iters = 2
    /\ Len(frame) = Len(FrameOrder)
    /\ h.invoked # << >>
    /\ pc = "while"

\* C6: set_screen(id) with id >= screens.len() panics and changes nothing;
\* with id < screens.len() it returns and active_screen = id, the rest
\* unchanged.
C6_SetScreen ==
    h.ss.called =>
        IF h.ss.id >= h.ss.len
        THEN h.ss.panicked /\ h.ss.active = h.ss.pre_active /\ h.ss.rest_same
        ELSE ~h.ss.panicked /\ h.ss.active = h.ss.id /\ h.ss.rest_same

C6_Witness ==
    /\ h.ss.called
    /\ h.ss.id = h.ss.len
    /\ h.ss.len >= 2
    /\ h.ss.panicked
    /\ pc = "panicked"

\* C7: the ids returned by add_screen and add_active_screen, in call order,
\* are 1, 2, 3, ...; set_screen with any of them succeeds in every later state.
C7_ScreenIds ==
    \A i \in 1..Len(h.returned) :
        /\ h.returned[i].id = i
        /\ ~set_screen(Self, h.returned[i].id).panicked
        /\ set_screen(Self, h.returned[i].id).active_screen = h.returned[i].id

C7_Witness ==
    /\ Len(h.returned) = 2
    /\ h.returned[1].by = "add_active_screen"
    /\ h.returned[2].by = "add_screen"
    /\ iters >= 1

\* C8: the key reaches the top layer only; the StackView's result is the top
\* layer's, so a key the top layer ignores goes to the global callbacks even
\* if a lower layer would have consumed it.
C8_TopLayerOnly ==
    (ev.valid /\ ev.layers # << >>)
        => /\ ev.delivered = {Len(ev.layers)}
           /\ ev.result = View_on_key_event(ev.layers[Len(ev.layers)], ev.key)
           /\ (ev.result.tag = "Ignored"
                  => /\ h.consulted
                     /\ h.invoked = IF ev.registered = NoCb THEN << >>
                                    ELSE <<ev.registered>>)

\* the bottom layer would have consumed the key, the top one ignored it
C8_Witness ==
    /\ ev.valid
    /\ Len(ev.layers) = 2
    /\ View_on_key_event(ev.layers[1], ev.key).tag = "Consumed"
    /\ ev.result.tag = "Ignored"
    /\ h.invoked # << >>

\* C9 as stated: whenever run() has stopped iterating, running is false.
C9_ExitOnlyWhenNotRunning ==
    exit # "none" => ~running

\* C9, amended: run() returns only when running is false; the loop is left
\* otherwise only by a panic raised inside a callback it invoked.
C9_ReturnOnlyWhenNotRunning ==
    /\ exit = "returned" => ~running
    /\ exit = "panic" => /\ h.invoked # << >>
                         /\ h.ss.called /\ h.ss.panicked /\ h.ss.id >= h.ss.len
                         /\ frame[Len(frame)].step = "dispatch"

C9_Witness ==
    /\ exit = "returned"
    /\ iters >= 1
    /\ ~running

C11_Find ==
    h.fd.called =>
        /\ ~h.fd.panicked
        /\ h.fd.same
        /\ h.fd.res = IF h.fd.hit # 0 /\ h.fd.hitType = h.fd.type
                      THEN ViewAt(h.fd.active, h.fd.hit)
                      ELSE NoView

\* the selector matches a view of the active screen, of another type than
\* the one asked for, while another screen holds a view that would fit
C11_Witness ==
    /\ h.fd.called
    /\ h.fd.hit # 0
    /\ h.fd.hitType # h.fd.type
    /\ h.fd.elsewhere
    /\ h.fd.res = NoView

\* C12: the table holds, for every key, the callback registered last for
\* it (a registration replaces the entry of its key and no other, and an
\* invocation removes nothing); an ignored delivery of a key invokes that
\* callback exactly once and no other.
C12_ReRegistration ==
    /\ \A k \in Keys : global_callbacks[k] = h.reg[k].cb
    /\ (ev.valid /\ ev.result.tag = "Ignored")
          => h.invoked = IF ev.lastreg = NoCb THEN << >> ELSE <<ev.lastreg>>

\* g replaced another callback f of the key; the key was ignored in two
\* iterations in a row and g ran in both
C12_Witness ==
    /\ ev.valid
    /\ ev.result.tag = "Ignored"
    /\ ev.over
    /\ h.invoked = <<ev.lastreg>>
    /\ h.prev.valid
    /\ h.prev.key = ev.key
    /\ h.prev.invoked = h.invoked

\* C13: when the active screen ignores a key that has no global callback,
\* no callback runs, the controller is unchanged, nothing fails, and the
\* loop is at its condition with running still true, so it goes on.
C13_RoutingMiss ==
    (ev.valid /\ ev.result.tag = "Ignored" /\ ev.registered = NoCb)
        => /\ h.invoked = << >>
           /\ ev.same
           /\ ~ev.panicked
           /\ pc = "while"
           /\ loop_cond(Self)
           /\ exit = "none"

\* a miss on a screen with layers, while the other key has a callback
C13_Witness ==
    /\ ev.valid
    /\ ev.result.tag = "Ignored"
    /\ ev.registered = NoCb
    /\ ev.layers # << >>
    /\ \E k \in Keys : global_callbacks[k] # NoCb
    /\ pc = "while"

\* the crate's example: main has made exactly the calls add_layer(text view)
\* and add_global_callback('q', quit), then run(), and the first key read
\* was 'q'
C14_Scenario ==
    /\ calls = 2
    /\ iters = 1
    /\ ev.valid
    /\ ev.key = KeyQ
    /\ ev.layers = <<"text">>
    /\ Len(screens) = 1
    /\ ev.table_before = [k \in Keys |-> IF k = KeyQ THEN "cbQuit" ELSE NoCb]

C14_ScenarioSafe ==
    C14_Scenario
        => /\ h.invoked = <<"cbQuit">>
           /\ ~ev.panicked
           /\ ~running
           /\ ~loop_cond(Self)
           /\ ncurses.refreshes = 1
           /\ pc \in {"while", "main", "dropped"}
           /\ (pc # "while" => exit = "returned")

\* C14: in that scenario the quit callback runs, nothing panics, the run
\* has drawn exactly once (the frame drawn before the key was read), and
\* run() returns.
C14_QuitScenario ==
    /\ []C14_ScenarioSafe
    /\ C14_Scenario ~> (exit = "returned")

C14_Witness ==
    /\ C14_Scenario
    /\ pc = "main"
    /\ exit = "returned"
    /\ ncurses.refreshes = 1

\* 1000 / fps over the naturals, for a non-zero u32 fps
C15_Quotient(fps) == IF fps.hi = 1 THEN 0 ELSE 1000 \div fps.lo

\* C15 as stated: the timeout is -1 for fps = 0 and 1000/fps for every
\* non-zero fps, and it is positive for fps in 1..1000.
C15_TimeoutAllFps ==
    h.fps.called =>
        LET fps == h.fps.arg
        IN  /\ fps = U32(0, 0) => ncurses.timeout = -1
            /\ fps # U32(0, 0) => ncurses.timeout = C15_Quotient(fps)
            /\ (fps.hi = 0 /\ fps.lo \in 1..FpsDocMax) => ncurses.timeout > 0

\* C15, amended: the timeout is -1 for fps = 0, and 1000/fps for every
\* non-zero fps up to 2^32 - 1001 (above that, fps as i32 is in -1000..-1
\* and the quotient is negative); it is positive for fps in 1..1000.
C15_Timeout ==
    h.fps.called =>
        LET fps == h.fps.arg
        IN  /\ fps = U32(0, 0) => ncurses.timeout = -1
            /\ (fps # U32(0, 0) /\ ~(fps.hi = 1 /\ fps.lo >= I32Max - 999))
                  => ncurses.timeout = C15_Quotient(fps)
            /\ (fps.hi = 0 /\ fps.lo \in 1..FpsDocMax)
                  => ncurses.timeout > 0 /\ ncurses.timeout # -1

\* fps = 3: the division rounds down, to 333 ms
C15_Witness ==
    /\ h.fps.called
    /\ h.fps.arg = U32(0, 3)
    /\ ncurses.timeout = 333

\* C16: add_layer(view) puts the view on top of the active screen: that
\* screen has one layer more, the new view is the top one, the layers
\* below are as before, and every other screen, active_screen, running and
\* global_callbacks are unchanged.
C16_AddLayer ==
    h.al.called =>
        /\ ~h.al.panicked
        /\ h.al.grows
        /\ h.al.top
        /\ h.al.kept
        /\ h.al.others_same
        /\ h.al.rest_same

\* a layer added to the second screen, on top of a layer it already had
C16_Witness ==
    /\ h.al.called
    /\ h.al.screen = 1
    /\ h.al.below >= 1
    /\ Len(screens) >= 2

\* C17: layout, draw and key delivery of one iteration work on one screen,
\* the one active when the iteration starts; a screen made active by a
\* callback is the one used from the start of the next iteration, and the
\* key dispatched there is the one read there, once.
C17_OneScreenPerFrame ==
    /\ \A i \in 1..Len(frame) : frame[i].screen = frame[1].screen
    /\ (pc = "body" => \A i \in 1..Len(frame) : frame[i].screen = active_screen)
    /\ (ev.valid => /\ ev.screen = frame[1].screen
                    /\ ev.key = ch
                    /\ Cardinality({i \in 1..Len(frame) : frame[i].step = "dispatch"}) = 1)
    /\ (h.prev.valid => \A i \in 1..Len(frame) : frame[i].screen = h.prev.after)

\* the callback of the previous iteration changed the active screen; this
\* iteration ran, layout to dispatch, on the new one
C17_Witness ==
    /\ h.prev.valid
    /\ h.prev.invoked # << >>
    /\ h.prev.after # h.prev.screen
    /\ ev.valid
    /\ ev.screen = h.prev.after
    /\ Len(frame) = Len(FrameOrder)

\* C18: for one key read, at most one callback is invoked: the follow-up
\* returned by the active screen, or the global callback of the key, never
\* both; the global table is looked up only for a key the screen ignored.
C18_AtMostOneCallback ==
    /\ Len(h.invoked) <= 1
    /\ (h.consulted => ev.valid /\ ev.result.tag = "Ignored")
    /\ (h.invoked # << >> =>
            /\ ev.valid
            /\ IF ev.result.tag = "Ignored"
               THEN h.consulted /\ h.invoked = <<ev.registered>>
               ELSE ~h.consulted /\ h.invoked = <<ev.result.cb>>)

\* the screen consumed the key with a follow-up although another callback
\* is registered for the key: only the follow-up ran
C18_Witness ==
    /\ ev.valid
    /\ ev.result = Consumed("cbSet1")
    /\ ev.registered = "cbQuit"
    /\ h.invoked = <<"cbSet1">>
    /\ running

\* the table t after the registrations that the closure body ops makes
RECURSIVE C19_TableAfter(_, _)
C19_TableAfter(ops, t) ==
    IF ops = << >> THEN t
    ELSE LET o == Head(ops)
         IN  C19_TableAfter(Tail(ops),
                 IF o[1] = "add_global_callback" THEN [t EXCEPT ![o[2]] = o[3]] ELSE t)

\* C19: a global callback that registers callbacks while it runs, also for
\* the key that triggered it, is invoked once and makes all its
\* registrations; every delivery looks up the table as last changed, by
\* main or by a callback.
C19_TableChangedInDispatch ==
    (ev.valid /\ ev.result.tag = "Ignored")
        => /\ ev.registered = ev.lastreg
           /\ (ev.registered # NoCb =>
                  /\ h.invoked = <<ev.registered>>
                  /\ ev.table_after = C19_TableAfter(CbBody(ev.registered), ev.table_before)
                  /\ (ev.registered \in {"cbReg", "cbSwap"} => ~ev.panicked))

\* key 1 triggered cbSwap, which replaced its own entry and registered
\* 'q'; the next delivery of key 1 ran the callback cbSwap had registered
C19_Witness ==
    /\ h.prev.valid
    /\ h.prev.key = 1
    /\ h.prev.invoked = <<"cbSwap">>
    /\ ev.valid
    /\ ev.key = 1
    /\ ev.regby = "cb"
    /\ h.invoked = <<"cbLayer">>
    /\ global_callbacks[KeyQ] = "cbQuit"

\* C20: running never goes from false to true; once quit() was called, by
\* a callback or by main before run(), running is false, no iteration
\* starts and nothing is cleared, laid out, drawn or read, and a run()
\* that reaches the loop condition returns.
C20_NoRestart ==
    [][/\ ~running => ~running'
       /\ h.quitCalled =>
            /\ ~running
            /\ iters' = iters
            /\ frame' = frame
            /\ ncurses'.refreshes = ncurses.refreshes
            /\ pc' # "body"
            /\ (pc = "while" /\ pc' # pc => pc' = "main" /\ exit' = "returned")]_vars

\* main called quit() and then run(), which returned without an iteration
C20_Witness ==
    /\ h.quitCalled
    /\ ~h.quitInCb
    /\ iters = 0
    /\ pc = "main"
    /\ exit = "returned"

====
